---- MODULE Spec2Model ----
(***************************************************************************)
(* protein-app (src/main.py): PDB upload, sequence extraction, range       *)
(* annotations.  The specifications, over one set of variables:            *)
(*   SpecExtract - extract_sequence_from_pdb, one loop iteration a step    *)
(*   Spec        - upload, view, annotation requests and the clock, one    *)
(*                 request a step                                          *)
(*   SpecStore   - the requests that write the record store                *)
(*   SpecUpload  - uploads of every name and content                       *)
(*   SpecConc    - add_annotation requests of several workers, one         *)
(*                 statement group a step                                  *)
(***************************************************************************)
EXTENDS Integers, Sequences, FiniteSets, TLC

VARIABLES
    \* ---- extract_sequence_from_pdb (src/main.py:89-110)
    pdb_file,       \* the input stream: a sequence of line descriptions
    line_no,        \* number of lines the for loop has consumed
    residues_seen,  \* the set residues_seen
    sequence,       \* the list sequence
    epc,            \* "loop" | "returned" | "raised"
    ret,            \* the returned string
    \* ---- record store, file storage, clock, last response
    proteins,       \* table proteins, in id order
    annotations,    \* table annotations, in id order
    files,          \* uploads/ directory: save_name -> content
    clock,          \* datetime.utcnow()
    response,       \* what the request handled by the last step answered
    \* ---- concurrent add_annotation workers
    req             \* worker -> its request in flight

vars == <<pdb_file, line_no, residues_seen, sequence, epc, ret,
          proteins, annotations, files, clock, response, req>>

(***************************************************************************)
(* Bounds of the model.                                                    *)
(***************************************************************************)
MaxLines == 3
MaxAnnotations == 2
MaxClock == 1

(***************************************************************************)
(* Strings are sequences of one-character strings wherever the code        *)
(* slices or strips them.                                                  *)
(***************************************************************************)
Min(a, b) == IF a < b THEN a ELSE b

Whitespace == {" ", "\n"}

\* Python s[a:b] for 0 <= a <= b
Slice(s, a, b) ==
    IF a + 1 > Min(b, Len(s)) THEN <<>> ELSE SubSeq(s, a + 1, Min(b, Len(s)))

RECURSIVE LStrip(_)
LStrip(s) ==
    IF s # <<>> /\ Head(s) \in Whitespace THEN LStrip(Tail(s)) ELSE s

RECURSIVE RStrip(_)
RStrip(s) ==
    IF s # <<>> /\ s[Len(s)] \in Whitespace
    THEN RStrip(SubSeq(s, 1, Len(s) - 1)) ELSE s

\* str.strip()
Strip(s) == RStrip(LStrip(s))

\* "".join(chars)
RECURSIVE Join(_)
Join(s) == IF s = <<>> THEN "" ELSE Head(s) \o Join(Tail(s))

\* str.startswith
StartsWith(s, p) == Len(s) >= Len(p) /\ SubSeq(s, 1, Len(p)) = p

\* str.endswith
EndsWith(s, p) ==
    Len(s) >= Len(p) /\ SubSeq(s, Len(s) - Len(p) + 1, Len(s)) = p

(***************************************************************************)
(* Input streams.  A line description names the fields of a PDB record and *)
(* the width at which the line is cut; MkLine lays them out in the PDB     *)
(* fixed-width columns and ends the line with a newline, as iterating a    *)
(* text file yields it.                                                    *)
(***************************************************************************)
RecordChars ==
    [ATOM   |-> <<"A", "T", "O", "M", " ", " ">>,
     HETATM |-> <<"H", "E", "T", "A", "T", "M">>]

ResidueChars ==
    [ALA |-> <<"A", "L", "A">>,
     GLY |-> <<"G", "L", "Y">>,
     XYZ |-> <<"X", "Y", "Z">>]

DigitChars == <<"0", "1", "2", "3", "4", "5", "6", "7", "8", "9">>

\* an integer below 100 right-justified in four columns
FormatInt4(n) ==
    IF n < 10 THEN <<" ", " ", " ", DigitChars[n + 1]>>
    ELSE <<" ", " ", DigitChars[(n \div 10) + 1], DigitChars[(n % 10) + 1]>>

\* columns 7-17: atom serial, atom name, altLoc
AtomColumns == <<" ", " ", " ", " ", "1", " ", " ", "C", "A", " ", " ">>

FullLine(l) ==
    RecordChars[l.rec] \o AtomColumns \o ResidueChars[l.res] \o <<" ">>
        \o <<l.chain>> \o FormatInt4(l.num) \o <<" ", " ", " ", " ">>

MkLine(l) == Slice(FullLine(l), 0, l.width) \o <<"\n">>

LineDesc(rec, res, chain, num, width) ==
    [rec |-> rec, res |-> res, chain |-> chain, num |-> num, width |-> width]

Widths == [full |-> 30, short |-> 20, bare |-> 4]

FullAtomLines ==
    {LineDesc("ATOM", r, c, n, Widths.full) :
        r \in {"ALA", "GLY", "XYZ"}, c \in {"A", "B"}, n \in {1, 12}}

OtherLines ==
    {LineDesc("HETATM", "GLY", "A", 1, Widths.full),
     LineDesc("ATOM", "ALA", "A", 1, Widths.short),
     LineDesc("ATOM", "ALA", "A", 1, Widths.bare)}

Lines == FullAtomLines \cup OtherLines

Streams(S, n) == UNION {[1..k -> S] : k \in 0..n}

(***************************************************************************)
(* extract_sequence_from_pdb                                               *)
(***************************************************************************)
RES3_TO_1 ==
    [ALA |-> "A", CYS |-> "C", ASP |-> "D", GLU |-> "E",
     PHE |-> "F", GLY |-> "G", HIS |-> "H", ILE |-> "I",
     LYS |-> "K", LEU |-> "L", MET |-> "M", ASN |-> "N",
     PRO |-> "P", GLN |-> "Q", ARG |-> "R", SER |-> "S",
     THR |-> "T", VAL |-> "V", TRP |-> "W", TYR |-> "Y"]

\* dict.get(k, default)
DictGet(d, k, default) == IF k \in DOMAIN d THEN d[k] ELSE default

\* line[21] raises IndexError on a line of fewer than 22 characters
ChainIndexRaises(line) == Len(line) <= 21

ResidueKeyNoChain(line) == <<"", Join(Strip(Slice(line, 22, 26)))>>

\* key = (chain_id, res_seq)
ResidueKey(line) ==
    <<Join(Strip(<<line[22]>>)), Join(Strip(Slice(line, 22, 26)))>>

\* one iteration of the for loop over the state [residues_seen, sequence, raised]
ProcessLine(st, line) ==
    IF ~StartsWith(line, <<"A", "T", "O", "M">>) THEN st
    ELSE IF ChainIndexRaises(line) THEN [st EXCEPT !.raised = TRUE]
    ELSE LET res_name == Join(Strip(Slice(line, 17, 20)))
             key == ResidueKey(line)
         IN  IF key \in st.residues_seen THEN st
             ELSE [st EXCEPT !.residues_seen = @ \cup {key},
                             !.sequence = Append(@, DictGet(RES3_TO_1, res_name, "X"))]

RECURSIVE ExtractFrom(_, _, _)
ExtractFrom(st, stream, i) ==
    IF st.raised \/ i > Len(stream) THEN st
    ELSE ExtractFrom(ProcessLine(st, MkLine(stream[i])), stream, i + 1)

\* the whole function: [raised, value]
extract_sequence_from_pdb(stream) ==
    LET st == ExtractFrom([residues_seen |-> {}, sequence |-> <<>>, raised |-> FALSE],
                          stream, 1)
    IN  [raised |-> st.raised, value |-> IF st.raised THEN "" ELSE Join(st.sequence)]

(***************************************************************************)
(* Requests: what clients send.                                            *)
(***************************************************************************)
\* uuid.uuid4().hex[:10] draws from a finite set: two draws can coincide
Slugs == {"s1", "s2"}

\* slugs of request URLs: those uploads can draw, and one they never draw
RequestSlugs == Slugs \cup {"s0"}

\* upload file names
UploadNames ==
    {<<"a", ".", "p", "d", "b">>, <<"A", ".", "P", "D", "B">>,
     <<"a", ".", "t", "x", "t">>}

PdbAG ==
    <<LineDesc("ATOM", "ALA", "A", 1, Widths.full),
      LineDesc("ATOM", "ALA", "A", 1, Widths.full),
      LineDesc("ATOM", "GLY", "A", 2, Widths.full)>>

PdbEmpty == <<>>

PdbCut == <<LineDesc("ATOM", "ALA", "A", 1, Widths.bare)>>

\* upload contents
UploadContents == {PdbAG, PdbEmpty, PdbCut}

\* form values of start_index and end_index
Indices == -1..2

Labels == {"helix"}

Colors == {"red"}

(***************************************************************************)
(* Record store and file storage.                                          *)
(***************************************************************************)
SaveNames == {slug \o ".pdb" : slug \in Slugs}

NoFile == [exists |-> FALSE, content |-> <<>>]

StoredFile(content) == [exists |-> TRUE, content |-> content]

\* what a query's .first() returns when no row matches
None == [id |-> 0, slug |-> "", filename |-> "", sequence |-> ""]

\* str.lower() on the characters upload names use
LowerChar(c) ==
    DictGet([A |-> "a", B |-> "b", D |-> "d", P |-> "p"], c, c)

Lower(s) == [i \in DOMAIN s |-> LowerChar(s[i])]

\* file.filename.lower().endswith(".pdb") (line 136)
IsPdbName(name) == EndsWith(Lower(name), <<".", "p", "d", "b">>)

\* save_name = f"{slug}.pdb" (line 141)
SaveName(slug) == slug \o ".pdb"

\* db.query(Protein).filter(Protein.slug == slug).first() (lines 170, 214)
ProteinBySlug(table, slug) ==
    LET hits == {i \in 1..Len(table) : table[i].slug = slug}
    IN  IF hits = {} THEN None
        ELSE table[CHOOSE i \in hits : \A j \in hits : i <= j]

\* the unique index on proteins.slug (line 51) fails the INSERT of a second
\* row with the same slug
SlugTaken(table, slug) == \E i \in 1..Len(table) : table[i].slug = slug

\* db.add(protein); db.commit() (lines 154-160); the store assigns the id.
\* Protein.created_at is left out: nothing reads it.
InsertProtein(table, slug, filename, seq) ==
    Append(table, [id |-> Len(table) + 1, slug |-> slug,
                   filename |-> filename, sequence |-> seq])

InvalidRangeOffByOne(sequence_length, start_index, end_index) ==
    start_index < 0 \/ end_index > sequence_length \/ start_index > end_index

InvalidRangeNoInversion(sequence_length, start_index, end_index) ==
    start_index < 0 \/ end_index >= sequence_length

\* the condition of line 218
InvalidRange(sequence_length, start_index, end_index) ==
    start_index < 0 \/ end_index >= sequence_length \/ start_index > end_index

InsertAnnotationWrongOwner(table, protein_id, start_index, end_index, label, color, now) ==
    Append(table, [id |-> Len(table) + 1, protein_id |-> 1,
                   start_index |-> start_index, end_index |-> end_index,
                   label |-> label, color |-> color, created_at |-> now])

InsertAnnotationReplacing(table, protein_id, start_index, end_index, label, color, now) ==
    LET row == [id |-> Len(table) + 1, protein_id |-> protein_id,
                start_index |-> start_index, end_index |-> end_index,
                label |-> label, color |-> color, created_at |-> now]
        own == {i \in 1..Len(table) : table[i].protein_id = protein_id}
    IN  IF own = {} THEN Append(table, row)
        ELSE LET k == CHOOSE i \in own : \A j \in own : j <= i
             IN  [table EXCEPT ![k] = [row EXCEPT !.id = k]]

\* db.add(ann); db.commit() (lines 221-229): the store assigns the id and
\* the column default stamps created_at with utcnow()
InsertAnnotation(table, protein_id, start_index, end_index, label, color, now) ==
    Append(table, [id |-> Len(table) + 1, protein_id |-> protein_id,
                   start_index |-> start_index, end_index |-> end_index,
                   label |-> label, color |-> color, created_at |-> now])

\* filter(Annotation.protein_id == protein.id) (line 176), in id order
AnnotationsOf(table, protein_id) ==
    SelectSeq(table, LAMBDA a : a.protein_id = protein_id)

RowOrders(rows) ==
    {[i \in 1..Len(rows) |-> rows[f[i]]] :
        f \in {g \in [1..Len(rows) -> 1..Len(rows)] :
                 \A i, j \in 1..Len(rows) : i # j => g[i] # g[j]}}

\* order_by(Annotation.created_at.asc()).all() (lines 177-178): every order
\* SQL allows, rows with equal created_at in any order
OrderByCreatedAt(rows) ==
    {r \in RowOrders(rows) :
        \A i \in 1..(Len(r) - 1) : r[i].created_at <= r[i + 1].created_at}

\* the dicts handed to the template (lines 182-191)
AnnData(rows) ==
    [i \in 1..Len(rows) |->
        [id |-> rows[i].id, start_index |-> rows[i].start_index,
         end_index |-> rows[i].end_index, label |-> rows[i].label,
         color |-> rows[i].color]]

\* worker processes serving add_annotation
Workers == {"w1", "w2"}

IdleRequest ==
    [pc |-> "idle", slug |-> "", start_index |-> 0, end_index |-> 0,
     label |-> "", color |-> "", protein |-> None, seen |-> 0,
     status |-> 0, ann_id |-> 0]

NoResponse ==
    [op |-> "none", name |-> <<>>, slug |-> "", start_index |-> 0,
     end_index |-> 0, status |-> 0, body |-> <<>>]

InitStore ==
    /\ proteins = <<>>
    /\ annotations = <<>>
    /\ files = [n \in SaveNames |-> NoFile]
    /\ clock = 0
    /\ response = NoResponse
    /\ req = [w \in Workers |-> IdleRequest]

InitExtractIdle ==
    /\ pdb_file = <<>>
    /\ line_no = 0
    /\ residues_seen = {}
    /\ sequence = <<>>
    /\ epc = "loop"
    /\ ret = ""

InitExtract ==
    /\ pdb_file \in Streams(Lines, MaxLines)
    /\ line_no = 0
    /\ residues_seen = {}
    /\ sequence = <<>>
    /\ epc = "loop"
    /\ ret = ""
    /\ InitStore

\* for line in f: ... (lines 94-108)
ReadLine ==
    /\ epc = "loop"
    /\ line_no < Len(pdb_file)
    /\ LET st == ProcessLine([residues_seen |-> residues_seen,
                              sequence |-> sequence, raised |-> FALSE],
                             MkLine(pdb_file[line_no + 1]))
       IN  /\ residues_seen' = st.residues_seen
           /\ sequence' = st.sequence
           /\ epc' = IF st.raised THEN "raised" ELSE "loop"
    /\ line_no' = line_no + 1
    /\ UNCHANGED <<pdb_file, ret, proteins, annotations, files, clock, response, req>>

\* return "".join(sequence) (line 110)
ReturnSequence ==
    /\ epc = "loop"
    /\ line_no = Len(pdb_file)
    /\ ret' = Join(sequence)
    /\ epc' = "returned"
    /\ UNCHANGED <<pdb_file, line_no, residues_seen, sequence,
                   proteins, annotations, files, clock, response, req>>

NextExtract == ReadLine \/ ReturnSequence

SpecExtract == InitExtract /\ [][NextExtract]_vars

(***************************************************************************)
(* What the stream holds, read off the line descriptions and not off the   *)
(* columns the code slices.                                                *)
(***************************************************************************)
IsAtomRecord(l) == l.rec = "ATOM"

PairOf(l) == <<l.chain, l.num>>

\* line i is the first ATOM line of the stream carrying its (chain, number) pair
FirstOfPair(stream, i) ==
    /\ IsAtomRecord(stream[i])
    /\ \A j \in 1..(i - 1) :
          ~(IsAtomRecord(stream[j]) /\ PairOf(stream[j]) = PairOf(stream[i]))

DistinctPairs(stream) ==
    {PairOf(stream[i]) : i \in {j \in 1..Len(stream) : IsAtomRecord(stream[j])}}

\* the one-letter codes of the residue names the input streams use
ExpectedLetter == [ALA |-> "A", GLY |-> "G", XYZ |-> "X"]

RECURSIVE ExpectedFrom(_, _)
ExpectedFrom(stream, i) ==
    IF i > Len(stream) THEN ""
    ELSE (IF FirstOfPair(stream, i) THEN ExpectedLetter[stream[i].res] ELSE "")
            \o ExpectedFrom(stream, i + 1)

ExpectedSequence(stream) == ExpectedFrom(stream, 1)

\* every line of the stream has all its fixed-width columns
ValidStructure(stream) == \A i \in 1..Len(stream) : stream[i].width = Widths.full

\* C3: for every input stream the extraction returns one letter per distinct
\* (chain, residue number) key of the ATOM lines, in order of first appearance:
\* the code of the first line's residue name, or "X" when it is not in the table.
C3_ReturnsFirstAppearances ==
    epc # "loop" => (epc = "returned" /\ ret = ExpectedSequence(pdb_file))

\* The same result on the streams for which the extraction returns.
ReturnedSequenceIsFirstAppearances ==
    epc = "returned" => ret = ExpectedSequence(pdb_file)

\* C4: for every valid structure input the length of the returned string is the
\* number of distinct (chain, residue number) pairs among its ATOM records.
C4_LengthIsDistinctPairs ==
    (epc # "loop" /\ ValidStructure(pdb_file)) =>
        (epc = "returned" /\ Len(ret) = Cardinality(DistinctPairs(pdb_file)))

\* C4 witness: a valid stream has been extracted in which two chains reuse a
\* residue number and a pair recurs after another residue.
C4_Witness ==
    /\ epc = "returned"
    /\ ValidStructure(pdb_file)
    /\ Len(pdb_file) = 3
    /\ \A i \in 1..3 : IsAtomRecord(pdb_file[i])
    /\ PairOf(pdb_file[1]) = PairOf(pdb_file[3])
    /\ pdb_file[2].chain # pdb_file[1].chain
    /\ pdb_file[2].num = pdb_file[1].num
    /\ Len(ret) = 2

\* C5: the extraction never raises, whatever the input: a malformed stream
\* yields a string.
C5_NeverRaises == epc # "raised"

(***************************************************************************)
(* The request handlers, one request a step.                               *)
(***************************************************************************)
Init == InitExtractIdle /\ InitStore

Respond(op, name, slug, start_index, end_index, status, body) ==
    response' = [op |-> op, name |-> name, slug |-> slug,
                 start_index |-> start_index, end_index |-> end_index,
                 status |-> status, body |-> body]

\* POST /upload (lines 134-164).  The file is written under the new slug's
\* name before it is parsed and before the record is inserted; an exception
\* of the parser or of the INSERT leaves the handler as a 500.
Upload(name, content, slug) ==
    IF ~IsPdbName(name)
    THEN /\ Respond("upload", name, "", 0, 0, 400, <<>>)
         /\ UNCHANGED <<proteins, annotations, files>>
    ELSE LET save_name == SaveName(slug)
             written == [files EXCEPT ![save_name] = StoredFile(content)]
             parsed == extract_sequence_from_pdb(written[save_name].content)
         IN  /\ files' = written
             /\ UNCHANGED annotations
             /\ IF parsed.raised \/ SlugTaken(proteins, slug)
                THEN /\ Respond("upload", name, slug, 0, 0, 500, <<>>)
                     /\ UNCHANGED proteins
                ELSE /\ proteins' = InsertProtein(proteins, slug, save_name, parsed.value)
                     /\ Respond("upload", name, slug, 0, 0, 303, <<>>)

UploadFrom(names, contents) ==
    /\ \E name \in names, content \in contents, slug \in Slugs :
          Upload(name, content, slug)
    /\ UNCHANGED <<pdb_file, line_no, residues_seen, sequence, epc, ret, clock, req>>

\* uploads of any name and content
UploadPdb == UploadFrom(UploadNames, UploadContents)

\* uploads of structure files: the names and contents that can create records
UploadStructure == UploadFrom({<<"a", ".", "p", "d", "b">>}, {PdbAG, PdbEmpty})

\* GET /p/{slug} (lines 167-202)
View(slug) ==
    LET protein == ProteinBySlug(proteins, slug)
    IN  IF protein.id = 0
        THEN Respond("view", <<>>, slug, 0, 0, 404, <<>>)
        ELSE \E rows \in OrderByCreatedAt(AnnotationsOf(annotations, protein.id)) :
                Respond("view", <<>>, slug, 0, 0, 200, AnnData(rows))

ViewProtein ==
    /\ \E slug \in RequestSlugs : View(slug)
    /\ UNCHANGED <<pdb_file, line_no, residues_seen, sequence, epc, ret,
                   proteins, annotations, files, clock, req>>

\* POST /p/{slug}/annotations (lines 205-231)
Add(slug, start_index, end_index, label, color) ==
    LET protein == ProteinBySlug(proteins, slug)
    IN  IF protein.id = 0
        THEN /\ Respond("add", <<>>, slug, start_index, end_index, 404, <<>>)
             /\ UNCHANGED annotations
        ELSE IF InvalidRange(Len(protein.sequence), start_index, end_index)
        THEN /\ Respond("add", <<>>, slug, start_index, end_index, 400, <<>>)
             /\ UNCHANGED annotations
        ELSE /\ Len(annotations) < MaxAnnotations
             /\ annotations' = InsertAnnotation(annotations, protein.id, start_index,
                                                end_index, label, color, clock)
             /\ Respond("add", <<>>, slug, start_index, end_index, 200, <<>>)

AddAnnotation ==
    /\ \E slug \in RequestSlugs, start_index \in Indices, end_index \in Indices,
          label \in Labels, color \in Colors :
          Add(slug, start_index, end_index, label, color)
    /\ UNCHANGED <<pdb_file, line_no, residues_seen, sequence, epc, ret,
                   proteins, files, clock, req>>

\* datetime.utcnow() moves on between requests, or does not
Tick ==
    /\ clock < MaxClock
    /\ clock' = clock + 1
    /\ response' = NoResponse
    /\ UNCHANGED <<pdb_file, line_no, residues_seen, sequence, epc, ret,
                   proteins, annotations, files, req>>

Next == UploadStructure \/ ViewProtein \/ AddAnnotation \/ Tick

Spec == Init /\ [][Next]_vars

\* the requests that write the record store
NextStore == UploadStructure \/ AddAnnotation

SpecStore == Init /\ [][NextStore]_vars

NextUpload == UploadPdb

SpecUpload == Init /\ [][NextUpload]_vars

(***************************************************************************)
(* add_annotation served by several workers at once, each with its own     *)
(* session (get_db, lines 117-122).  A step is one statement group of      *)
(* lines 213-231.  The store starts as two uploads leave it.               *)
(***************************************************************************)
InFlight == Cardinality({w \in Workers : req[w].pc \in {"validate", "insert", "commit"}})

InitConc ==
    /\ InitExtractIdle
    /\ \E c1 \in {PdbAG, PdbEmpty}, c2 \in {PdbAG, PdbEmpty} :
          /\ proteins =
                InsertProtein(
                    InsertProtein(<<>>, "s1", SaveName("s1"),
                                  extract_sequence_from_pdb(c1).value),
                    "s2", SaveName("s2"), extract_sequence_from_pdb(c2).value)
          /\ files = [n \in SaveNames |->
                        IF n = SaveName("s1") THEN StoredFile(c1) ELSE StoredFile(c2)]
    /\ annotations = <<>>
    /\ clock = 0
    /\ response = NoResponse
    /\ req = [w \in Workers |-> IdleRequest]

\* lines 213-216: the request arrives and the protein is looked up.
\* seen is a history field: the number of annotations committed at that moment.
AddLookup(w) ==
    /\ req[w].pc = "idle"
    /\ Len(annotations) + InFlight < MaxAnnotations
    /\ \E slug \in RequestSlugs, start_index \in Indices, end_index \in Indices,
          label \in Labels, color \in Colors :
          LET protein == ProteinBySlug(proteins, slug)
              r == [IdleRequest EXCEPT !.slug = slug, !.start_index = start_index,
                                       !.end_index = end_index, !.label = label,
                                       !.color = color, !.protein = protein,
                                       !.seen = Len(annotations)]
          IN  req' = [req EXCEPT ![w] =
                        IF protein.id = 0
                        THEN [r EXCEPT !.pc = "done", !.status = 404]
                        ELSE [r EXCEPT !.pc = "validate"]]
    /\ UNCHANGED <<pdb_file, line_no, residues_seen, sequence, epc, ret,
                   proteins, annotations, files, clock, response>>

\* lines 218-219
AddValidate(w) ==
    /\ req[w].pc = "validate"
    /\ req' = [req EXCEPT ![w] =
                 IF InvalidRange(Len(req[w].protein.sequence),
                                 req[w].start_index, req[w].end_index)
                 THEN [@ EXCEPT !.pc = "done", !.status = 400]
                 ELSE [@ EXCEPT !.pc = "insert"]]
    /\ UNCHANGED <<pdb_file, line_no, residues_seen, sequence, epc, ret,
                   proteins, annotations, files, clock, response>>

\* lines 221-228: the Annotation is built and added to the worker's session
AddInsert(w) ==
    /\ req[w].pc = "insert"
    /\ req' = [req EXCEPT ![w].pc = "commit"]
    /\ UNCHANGED <<pdb_file, line_no, residues_seen, sequence, epc, ret,
                   proteins, annotations, files, clock, response>>

\* line 229: the session flushes the INSERT and commits
AddCommit(w) ==
    /\ req[w].pc = "commit"
    /\ annotations' = InsertAnnotation(annotations, req[w].protein.id,
                                       req[w].start_index, req[w].end_index,
                                       req[w].label, req[w].color, clock)
    /\ req' = [req EXCEPT ![w].pc = "done", ![w].status = 200,
                          ![w].ann_id = annotations'[Len(annotations')].id]
    /\ UNCHANGED <<pdb_file, line_no, residues_seen, sequence, epc, ret,
                   proteins, files, clock, response>>

\* line 231 or the raised HTTPException: the response leaves, the worker is free
AddReturn(w) ==
    /\ req[w].pc = "done"
    /\ req' = [req EXCEPT ![w] = IdleRequest]
    /\ UNCHANGED <<pdb_file, line_no, residues_seen, sequence, epc, ret,
                   proteins, annotations, files, clock, response>>

NextConc ==
    \E w \in Workers :
        AddLookup(w) \/ AddValidate(w) \/ AddInsert(w) \/ AddCommit(w) \/ AddReturn(w)

SpecConc == InitConc /\ [][NextConc]_vars

(***************************************************************************)
(* Properties of the request handlers.                                     *)
(***************************************************************************)
\* 0 <= start <= end < sequence_length, as the data model states it
WithinSequence(sequence_length, start_index, end_index) ==
    0 <= start_index /\ start_index <= end_index /\ end_index <= sequence_length - 1

\* C1: every persisted Annotation references an existing Protein and lies within
\* that Protein's sequence: 0 <= start_index <= end_index <= len(sequence) - 1;
\* so none is persisted for a Protein whose sequence is empty.
C1_AnnotationsWithinSequence ==
    \A i \in 1..Len(annotations) :
        \E j \in 1..Len(proteins) :
            /\ proteins[j].id = annotations[i].protein_id
            /\ WithinSequence(Len(proteins[j].sequence),
                              annotations[i].start_index, annotations[i].end_index)

\* C1 witness: an annotation reaching the last residue is stored, a Protein with
\* an empty sequence exists and a request against it has just been refused.
C1_Witness ==
    /\ \E i \in 1..Len(annotations) :
          annotations[i].start_index = 0 /\ annotations[i].end_index = 1
    /\ response.op = "add"
    /\ response.status = 400
    /\ ProteinBySlug(proteins, response.slug).id # 0
    /\ ProteinBySlug(proteins, response.slug).sequence = ""

\* C2: for a known slug the range check accepts (status 200) exactly when
\* 0 <= start <= end < sequence_length, and answers 400 in every other case.
C2_RangeCheckExact ==
    (response.op = "add" /\ ProteinBySlug(proteins, response.slug).id # 0) =>
        IF WithinSequence(Len(ProteinBySlug(proteins, response.slug).sequence),
                          response.start_index, response.end_index)
        THEN response.status = 200
        ELSE response.status = 400

\* C2 witness: a request whose indices both lie in the sequence but are inverted
\* has been refused.
C2_Witness ==
    /\ response.op = "add"
    /\ response.status = 400
    /\ response.start_index = 1
    /\ response.end_index = 0
    /\ Len(ProteinBySlug(proteins, response.slug).sequence) = 2

\* C8: an annotation request that fails changes nothing in the record store:
\* 404 for an unknown slug whatever the indices, 400 for a known slug with an
\* invalid range; one that succeeds appends exactly one Annotation, owned by the
\* Protein of that slug, and changes nothing else.
C8_AddAnnotationFrame ==
    [][response'.op = "add" =>
        LET p == ProteinBySlug(proteins, response'.slug)
        IN  IF p.id = 0
            THEN response'.status = 404 /\ UNCHANGED <<proteins, annotations, files>>
            ELSE IF ~WithinSequence(Len(p.sequence), response'.start_index,
                                    response'.end_index)
            THEN response'.status = 400 /\ UNCHANGED <<proteins, annotations, files>>
            ELSE /\ response'.status = 200
                 /\ UNCHANGED <<proteins, files>>
                 /\ Len(annotations') = Len(annotations) + 1
                 /\ SubSeq(annotations', 1, Len(annotations)) = annotations
                 /\ annotations'[Len(annotations')].protein_id = p.id
                 /\ annotations'[Len(annotations')].start_index = response'.start_index
                 /\ annotations'[Len(annotations')].end_index = response'.end_index
    ]_vars

\* C8 witness: with an annotation already stored for the second Protein, a
\* request for an unknown slug with inverted indices has been answered 404.
C8_Witness ==
    /\ \E i \in 1..Len(annotations) : annotations[i].protein_id = 2
    /\ response.op = "add"
    /\ response.status = 404
    /\ response.start_index > response.end_index

\* C6: an upload whose slug equals an existing Protein's slug ends as an error
\* and leaves that Protein's record and its stored file as they were.
C6_CollisionOverwritesNothing ==
    [][(response'.op = "upload" /\ response'.status # 400
            /\ SlugTaken(proteins, response'.slug)) =>
        /\ response'.status = 500
        /\ proteins' = proteins
        /\ files'[SaveName(response'.slug)] = files[SaveName(response'.slug)]
    ]_vars

\* C7: an upload whose name does not end in ".pdb" (in any case) is answered 400
\* with no slug and no change to the record store or file storage; one whose
\* name does creates exactly one Protein whose filename is its slug and ".pdb".
C7_UploadEffect ==
    [][response'.op = "upload" =>
        IF response'.name \notin {<<"a", ".", "p", "d", "b">>,
                                  <<"A", ".", "P", "D", "B">>}
        THEN /\ response'.status = 400
             /\ response'.slug = ""
             /\ UNCHANGED <<proteins, annotations, files>>
        ELSE /\ Len(proteins') = Len(proteins) + 1
             /\ SubSeq(proteins', 1, Len(proteins)) = proteins
             /\ proteins'[Len(proteins')].slug = response'.slug
             /\ proteins'[Len(proteins')].filename = response'.slug \o ".pdb"
    ]_vars

\* C10: the view of a known slug lists exactly that Protein's Annotations in the
\* order of their creation, also when created_at values coincide; the view of
\* an unknown slug is answered 404.
C10_ViewInCreationOrder ==
    response.op = "view" =>
        LET p == ProteinBySlug(proteins, response.slug)
        IN  IF p.id = 0 THEN response.status = 404
            ELSE /\ response.status = 200
                 /\ response.body = AnnData(AnnotationsOf(annotations, p.id))

====
